---------------------------- MODULE Spec2Model ----------------------------
(***************************************************************************)
(* git-wt: provisioning of a "bare repository + worktree" workspace from a *)
(* repository url.  The command-line entry point exists in two revisions   *)
(* in the sources (src/unnamed/part_000 and src/unnamed/part_001); the     *)
(* variable build says which of them is running.  Strings are sequences of *)
(* one-character strings, so that trim, toLowerCase, includes, the         *)
(* repository-name regular expression and path.join are computed as the    *)
(* code computes them.  Paths are sequences of segments.                   *)
(***************************************************************************)
EXTENDS Integers, Sequences, FiniteSets, TLC

(***************************************************************************)
(* Bounds of the model.                                                    *)
(***************************************************************************)
\* number of invocations of the command that share one filesystem
MaxRuns == 2
\* most branch tokens given on one command line
MaxBranchArgs == 2

(***************************************************************************)
(* String literals of the sources.                                         *)
(***************************************************************************)
PAT_INVALID_REFERENCE ==
    <<"i","n","v","a","l","i","d"," ","r","e","f","e","r","e","n","c","e">>
PAT_NOT_A_VALID_OBJECT_NAME ==
    <<"n","o","t"," ","a"," ","v","a","l","i","d"," ","o","b","j","e","c","t"," ","n","a","m","e">>
MISSING_BRANCH_PATTERNS ==
    <<PAT_INVALID_REFERENCE, PAT_NOT_A_VALID_OBJECT_NAME>>
GIT_SUFFIX ==
    <<".","g","i","t">>
BARE_NAME ==
    <<".","b","a","r","e">>
MSG_USAGE ==
    <<"U","s","a","g","e",":"," ","g","i","t","-","w","t"," ","<","r","e","p","o","-","u","r","l",">"," ","<","b","r","a","n","c","h","-","n","a","m","e",">"," ","[","o","p","t","i","o","n","s","]">>
MSG_INVALID_URL ==
    <<"I","n","v","a","l","i","d"," ","G","i","t"," ","U","R","L","."," ","C","o","u","l","d"," ","n","o","t"," ","e","x","t","r","a","c","t"," ","r","e","p","o","s","i","t","o","r","y"," ","n","a","m","e",".">>
MSG_WORKTREE_PATH ==
    <<"W","o","r","k","t","r","e","e"," ","p","a","t","h"," ">>
MSG_ALREADY_EXISTS ==
    <<" ","a","l","r","e","a","d","y"," ","e","x","i","s","t","s",".">>
\* the message the test suite expects (src/test/cli.test.mjs:63)
MSG_MISSING_NON_INTERACTIVE ==
    <<"M","i","s","s","i","n","g"," ","r","e","q","u","i","r","e","d"," ","a","r","g","u","m","e","n","t","s"," ","i","n"," ","n","o","n","-","i","n","t","e","r","a","c","t","i","v","e"," ","m","o","d","e">>
\* the phrase the test suite matches (src/test/cli.test.mjs:95)
PHRASE_ALREADY_EXISTS ==
    <<"a","l","r","e","a","d","y"," ","e","x","i","s","t","s">>

(***************************************************************************)
(* Messages of the collaborators: commander, fs-extra and git.             *)
(***************************************************************************)
MSG_MISSING_ARGUMENT ==
    <<"e","r","r","o","r",":"," ","m","i","s","s","i","n","g"," ","r","e","q","u","i","r","e","d"," ","a","r","g","u","m","e","n","t">>
MSG_TOO_MANY_ARGUMENTS ==
    <<"e","r","r","o","r",":"," ","t","o","o"," ","m","a","n","y"," ","a","r","g","u","m","e","n","t","s">>
MSG_ENSURE_DIR ==
    <<"E","N","O","T","D","I","R",":"," ","n","o","t"," ","a"," ","d","i","r","e","c","t","o","r","y",","," ","m","k","d","i","r">>
MSG_PROMPT_CLOSED ==
    <<"U","s","e","r"," ","f","o","r","c","e"," ","c","l","o","s","e","d"," ","t","h","e"," ","p","r","o","m","p","t">>
GE_INVALID_REF ==
    <<"f","a","t","a","l",":"," ","i","n","v","a","l","i","d"," ","r","e","f","e","r","e","n","c","e",":"," ","d","e","v">>
GE_INVALID_REF_CAPS ==
    <<"f","a","t","a","l",":"," ","I","n","v","a","l","i","d"," ","R","e","f","e","r","e","n","c","e",":"," ","d","e","v">>
GE_NOT_VALID_OBJECT ==
    <<"f","a","t","a","l",":"," ","N","o","t"," ","a"," ","v","a","l","i","d"," ","o","b","j","e","c","t"," ","n","a","m","e",":"," ","'","d","e","v","'">>
GE_PERMISSION ==
    <<"f","a","t","a","l",":"," ","c","o","u","l","d"," ","n","o","t"," ","c","r","e","a","t","e"," ","w","o","r","k"," ","t","r","e","e"," ","d","i","r",":"," ","P","e","r","m","i","s","s","i","o","n"," ","d","e","n","i","e","d">>
GE_BRANCH_EXISTS ==
    <<"f","a","t","a","l",":"," ","a"," ","b","r","a","n","c","h"," ","n","a","m","e","d"," ","'","d","e","v","'"," ","a","l","r","e","a","d","y"," ","e","x","i","s","t","s">>
GE_REPO_NOT_FOUND ==
    <<"f","a","t","a","l",":"," ","r","e","p","o","s","i","t","o","r","y"," ","n","o","t"," ","f","o","u","n","d">>

(***************************************************************************)
(* String and path primitives of the JavaScript runtime.                   *)
(***************************************************************************)
UpperCase ==
    <<"A","B","C","D","E","F","G","H","I","J","K","L","M",
      "N","O","P","Q","R","S","T","U","V","W","X","Y","Z">>
LowerCase ==
    <<"a","b","c","d","e","f","g","h","i","j","k","l","m",
      "n","o","p","q","r","s","t","u","v","w","x","y","z">>
WhiteSpace ==
    {" ", "\t", "\n"}

toLowerCaseChar(c) ==
    IF \E i \in DOMAIN UpperCase : UpperCase[i] = c
    THEN LowerCase[CHOOSE i \in DOMAIN UpperCase : UpperCase[i] = c]
    ELSE c

\* String.prototype.toLowerCase
toLowerCase(s) ==
    [i \in 1..Len(s) |-> toLowerCaseChar(s[i])]

\* String.prototype.includes
includes(s, p) ==
    \E i \in 0..(Len(s) - Len(p)) : SubSeq(s, i + 1, i + Len(p)) = p

\* String.prototype.trim
trim(s) ==
    LET keep == {i \in 1..Len(s) : s[i] \notin WhiteSpace}
    IN  IF keep = {} THEN <<>>
        ELSE SubSeq(s, CHOOSE i \in keep : \A j \in keep : i <= j,
                       CHOOSE i \in keep : \A j \in keep : j <= i)

\* String.prototype.split on "/"
RECURSIVE splitSlash(_)
splitSlash(s) ==
    LET at == {i \in 1..Len(s) : s[i] = "/"}
    IN  IF at = {} THEN <<s>>
        ELSE LET k == CHOOSE i \in at : \A j \in at : i <= j
             IN  <<SubSeq(s, 1, k - 1)>> \o splitSlash(SubSeq(s, k + 1, Len(s)))

\* path.normalize of an absolute path given as its segments: "" and "." are
\* dropped, ".." removes the segment before it (and stays at the root).
RECURSIVE normalize(_, _)
normalize(segs, acc) ==
    IF segs = <<>> THEN acc
    ELSE LET h == Head(segs)
         IN  IF h = <<>> \/ h = <<".">> THEN normalize(Tail(segs), acc)
             ELSE IF h = <<".", ".">>
                  THEN normalize(Tail(segs),
                                 IF acc = <<>> THEN acc
                                 ELSE SubSeq(acc, 1, Len(acc) - 1))
                  ELSE normalize(Tail(segs), Append(acc, h))

\* process.cwd(), as a path and as the string commander gets as a default
Cwd ==
    << <<"w">> >>
CwdString ==
    <<"/", "w">>

\* path.resolve(dir)
pathResolve(d) ==
    IF d # <<>> /\ d[1] = "/"
    THEN normalize(splitSlash(d), <<>>)
    ELSE normalize(Cwd \o splitSlash(d), <<>>)

\* path.join(base, name) for an absolute base
pathJoin(base, name) ==
    normalize(base \o splitSlash(name), <<>>)

\* the string form of a path
RECURSIVE pathString(_)
pathString(p) ==
    IF p = <<>> THEN <<>> ELSE <<"/">> \o Head(p) \o pathString(Tail(p))

\* the prefixes of a path, the path itself included
Prefixes(p) ==
    {SubSeq(p, 1, n) : n \in 1..Len(p)}

(***************************************************************************)
(* Pure functions of the command.                                          *)
(***************************************************************************)
RepoNameMatch_KeepsSuffix(u) ==
    LET at   == {i \in 1..Len(u) : u[i] = "/"}
        k    == IF at = {} THEN 0 ELSE CHOOSE i \in at : \A j \in at : j <= i
    IN  IF k = 0 THEN <<>> ELSE SubSeq(u, k + 1, Len(u))

\* url.match(/\/([^\/]+?)(\.git)?$/)?.[1]; the empty string stands for "no
\* match" (the first group never matches the empty string).
RepoNameMatch(u) ==
    LET at   == {i \in 1..Len(u) : u[i] = "/"}
        k    == IF at = {} THEN 0 ELSE CHOOSE i \in at : \A j \in at : j <= i
        rest == SubSeq(u, k + 1, Len(u))
        n    == Len(rest) - Len(GIT_SUFFIX)
    IN  IF k = 0 \/ rest = <<>> THEN <<>>
        ELSE IF n > 0 /\ SubSeq(rest, n + 1, Len(rest)) = GIT_SUFFIX
             THEN SubSeq(rest, 1, n)
             ELSE rest

\* part_001: isMissingBranchError
isMissingBranchError(message) ==
    \E i \in DOMAIN MISSING_BRANCH_PATTERNS :
        includes(toLowerCase(message), MISSING_BRANCH_PATTERNS[i])

\* part_000: the condition of the catch of the first worktree add
MissingBranchMatch000(message) ==
    \/ includes(message, PAT_INVALID_REFERENCE)
    \/ includes(message, PAT_NOT_A_VALID_OBJECT_NAME)

\* the message of the path-conflict error
ExistsMessage(p) ==
    MSG_WORKTREE_PATH \o pathString(p) \o MSG_ALREADY_EXISTS

(***************************************************************************)
(* The inputs the model draws from.                                        *)
(***************************************************************************)
URL_GIT ==
    <<"h","/","r",".","g","i","t">>
URL_PADDED ==
    <<" ","h","/","r"," ">>
URL_NO_SLASH ==
    <<"r">>
BRANCH_DEV ==
    <<"d","e","v">>
BRANCH_M ==
    <<"m">>
BRANCH_BLANK ==
    <<" ">>
DIR_T ==
    <<"T">>
ORIGIN ==
    <<"o","r","i","g","i","n">>

\* an optional command-line argument: undefined, or a string
Undefined ==
    [present |-> FALSE, v |-> <<>>]
Some(s) ==
    [present |-> TRUE, v |-> s]
\* JavaScript truthiness of an optional string
Truthy(a) ==
    a.present /\ a.v # <<>>

UrlArgs ==
    {Undefined, Some(<<>>), Some(URL_GIT), Some(URL_PADDED), Some(URL_NO_SLASH)}
BranchTokens ==
    {BRANCH_DEV, BRANCH_M}
\* the branch tokens of a command line: up to MaxBranchArgs names, or one
\* blank token
BranchArgs ==
    UNION {[1..n -> BranchTokens] : n \in 0..MaxBranchArgs}
      \cup {<<BRANCH_BLANK>>}
\* --dir: the default is process.cwd() (part_001:146, part_000:29)
DirArgs ==
    {CwdString, DIR_T}
\* what a user types into the prompt of part_000 (validate rejects "")
UrlAnswers ==
    {URL_GIT}
BranchAnswers ==
    {BRANCH_DEV, BRANCH_BLANK}

\* the version in package.json when the command runs, and the literal of
\* part_000:26
VERSION_000 ==
    <<"1",".","0",".","0">>
PackageVersions ==
    {<<"1",".","0",".","0">>, <<"1",".","0",".","1">>}
\* nothing was written by --version
NoVersion ==
    [package |-> <<>>, out |-> <<>>]

\* error messages of git
AddErrors ==
    {GE_INVALID_REF, GE_INVALID_REF_CAPS, GE_NOT_VALID_OBJECT, GE_PERMISSION}
AddBErrors ==
    {GE_BRANCH_EXISTS, GE_INVALID_REF}
RepoErrors ==
    {GE_REPO_NOT_FOUND}

\* an entry of the filesystem: what is at a path, and the run that made it
\* (0: it was there before the first run)
Entry(kind, by) ==
    [kind |-> kind, by |-> by]

\* filesystems the first run may find
FsEmpty ==
    (Cwd :> Entry("dir", 0))
FsRepoIsFile ==
    FsEmpty @@ (Cwd \o <<<<"r">>>> :> Entry("file", 0))
FsBare ==
    FsEmpty @@ (Cwd \o <<<<"r">>>> :> Entry("dir", 0))
            @@ (Cwd \o <<<<"r">>, BARE_NAME>> :> Entry("bare", 0))
FsBareAndDev ==
    FsBare @@ (Cwd \o <<<<"r">>, BRANCH_DEV>> :> Entry("dir", 0))
InitialFilesystems ==
    {FsEmpty, FsRepoIsFile, FsBare, FsBareAndDev}

(***************************************************************************)
(* State.                                                                  *)
(***************************************************************************)
VARIABLES
    build,      \* "part_000" or "part_001": the revision of the entry point
    fs,         \* the filesystem: path -> entry, for the paths that exist
    fs0,        \* the filesystem as the current run found it
    runs,       \* number of invocations started so far
    argv,       \* the command line: [url, branches, dir]
    tty,        \* whether the process is attached to an interactive terminal
    pc,         \* position of the current run
    url,        \* url of the action handler (optional string)
    branch,     \* branch of the action handler (optional string)
    dir,        \* directory of the action handler
    ops,        \* filesystem and git operations issued by the current run
    events,     \* spinner calls of the current run
    failMsg,    \* the last failure message shown, <<>> if none
    exitCode,   \* exit status of the current run
    prompted,   \* whether the current run invoked the prompt
    shown,      \* what --version wrote, and what package.json held then
    \* src/tui.ts, collectInputsWithTui:
    values,     \* the text of the url, branch and dir textboxes
    focusIndex, \* let focusIndex
    settled,    \* let settled
    promise,    \* the promise collectInputsWithTui returned
    messageBox, \* the content of the message box
    effects,    \* screen.destroy, resolve and reject calls, in order
    key         \* the binding that ran last

cliVars ==
    <<build, fs, fs0, runs, argv, tty, pc, url, branch, dir, ops, events,
      failMsg, exitCode, prompted, shown>>

tuiVars ==
    <<values, focusIndex, settled, promise, messageBox, effects, key>>

vars ==
    <<cliVars, tuiVars>>

\* the layout (part_001:151-156, part_000:65-70)
RepoName ==
    RepoNameMatch(url.v)
BaseDir ==
    pathResolve(dir)
RepoDir ==
    pathJoin(BaseDir, RepoName)
BareRepoPath_InBaseDir ==
    pathJoin(BaseDir, BARE_NAME)
BareRepoPath ==
    pathJoin(RepoDir, BARE_NAME)
WorktreePath ==
    pathJoin(RepoDir, branch.v)

\* fs.existsSync
existsSync(p) ==
    p \in DOMAIN fs

\* fs.ensureDir can make p: no prefix of p is something else than a directory
CanEnsureDir(p) ==
    \A q \in Prefixes(p) : q \in DOMAIN fs => fs[q].kind # "file"

\* the filesystem after the directories of p that are missing were made
WithDirs(f, p) ==
    [q \in (Prefixes(p) \ DOMAIN f) |-> Entry("dir", runs)] @@ f

\* the filesystem after something of the given kind was made at p
WithEntry(f, p, kind) ==
    (p :> Entry(kind, runs)) @@ WithDirs(f, p)

Op(op, path, arg) ==
    [op |-> op, path |-> path, arg |-> arg, res |-> "pending", err |-> <<>>]
\* the last operation issued has ended
Ended(res, err) ==
    [ops EXCEPT ![Len(ops)].res = res, ![Len(ops)].err = err]

Event(sp, status, phase) ==
    [sp |-> sp, status |-> status, phase |-> phase]

\* the command lines: arguments are positional (no branch token without a
\* url), and --version stands alone
CommandLines(urls, branchArgs, dirs) ==
    {a \in [url : urls, branches : branchArgs, dir : dirs,
            version : BOOLEAN] :
        /\ ~a.url.present => a.branches = <<>>
        /\ a.version => ~a.url.present /\ a.dir = CwdString}

\* the command before its first run, for the given command lines and
\* filesystems
Start(commandLines, filesystems) ==
    /\ build \in {"part_000", "part_001"}
    /\ fs \in filesystems
    /\ fs0 = fs
    /\ runs = 0
    /\ argv \in commandLines
    /\ tty \in BOOLEAN
    /\ pc = "idle"
    /\ url = Undefined
    /\ branch = Undefined
    /\ dir = <<>>
    /\ ops = <<>>
    /\ events = <<>>
    /\ failMsg = <<>>
    /\ exitCode = 0
    /\ prompted = FALSE
    /\ shown = NoVersion

\* the form is not open
TuiClosed ==
    /\ values = [url |-> <<>>, branch |-> <<>>, dir |-> <<>>]
    /\ focusIndex = 0
    /\ settled = FALSE
    /\ promise = [state |-> "none", inputs |-> [url |-> <<>>, branch |-> <<>>,
                                              dir |-> <<>>],
                  error |-> <<>>]
    /\ messageBox = <<>>
    /\ effects = <<>>
    /\ key = "none"

Init ==
    /\ Start(CommandLines(UrlArgs, BranchArgs, DirArgs), InitialFilesystems)
    /\ TuiClosed

(***************************************************************************)
(* The catch handlers of the action (part_001:173-176, part_000:122-125),  *)
(* as what they change; the caller says what happens to fs and ops.        *)
(***************************************************************************)
Catch(message) ==
    /\ failMsg' = message
    /\ exitCode' = 1
    /\ pc' = "done"
    /\ events' = Append(events,
                        Event(IF build = "part_000" THEN "ora" ELSE "spinner",
                              "fail", "error"))

\* commander ends the process itself: program.error prints and exits 1
CommanderError(message) ==
    /\ failMsg' = message
    /\ exitCode' = 1
    /\ pc' = "done"

(***************************************************************************)
(* program.parseAsync(process.argv): a run starts.  commander checks the   *)
(* declared arguments before it calls the action: <url> <branch> are       *)
(* required in part_001 and optional in part_000; neither declares a       *)
(* variadic argument, so further tokens are excess arguments, which        *)
(* commander either ignores or rejects, depending on its version.          *)
(***************************************************************************)
Invoke ==
    /\ pc \in {"idle", "done"}
    /\ runs < MaxRuns
    /\ ~argv.version
    /\ shown' = NoVersion
    /\ runs' = runs + 1
    /\ fs0' = fs
    /\ ops' = <<>>
    /\ events' = <<>>
    /\ prompted' = FALSE
    /\ url' = argv.url
    /\ branch' = IF argv.branches = <<>> THEN Undefined
                 ELSE Some(argv.branches[1])
    /\ dir' = argv.dir
    /\ \/ /\ build = "part_001"
          /\ ~argv.url.present \/ argv.branches = <<>>
          /\ CommanderError(MSG_MISSING_ARGUMENT)
       \/ /\ Len(argv.branches) > 1
          /\ build = "part_001" => argv.url.present
          /\ CommanderError(MSG_TOO_MANY_ARGUMENTS)
       \/ /\ build = "part_001" => argv.url.present /\ argv.branches # <<>>
          /\ pc' = "action"
          /\ failMsg' = <<>>
          /\ exitCode' = 0
    /\ UNCHANGED tuiVars
    /\ UNCHANGED <<build, fs, argv, tty>>

(***************************************************************************)
(* --version: the handler commander installs by .version(...) writes the   *)
(* version and ends the process with status 0 while the options are        *)
(* parsed, before the arguments are checked and before the action.         *)
(* part_001 passes the version of package.json (part_001:19-20, 143),      *)
(* part_000 the literal '1.0.0' (part_000:26).                             *)
(***************************************************************************)
Version ==
    /\ pc \in {"idle", "done"}
    /\ runs < MaxRuns
    /\ argv.version
    /\ runs' = runs + 1
    /\ fs0' = fs
    /\ ops' = <<>>
    /\ events' = <<>>
    /\ prompted' = FALSE
    /\ url' = Undefined
    /\ branch' = Undefined
    /\ dir' = argv.dir
    /\ \E pv \in PackageVersions :
         shown' = [package |-> pv,
                   out |-> IF build = "part_001" THEN pv ELSE VERSION_000]
    /\ failMsg' = <<>>
    /\ exitCode' = 0
    /\ pc' = "done"
    /\ UNCHANGED tuiVars
    /\ UNCHANGED <<build, fs, argv, tty>>

(***************************************************************************)
(* part_001:150-151: resolveInputs and resolveRepoName.                    *)
(***************************************************************************)
\* resolveInputs (part_001:49-63); ok = FALSE stands for the throw
resolveInputs(urlArg, branchArg, dirArg) ==
    LET u == IF urlArg.present THEN trim(urlArg.v) ELSE <<>>
        b == IF branchArg.present THEN trim(branchArg.v) ELSE <<>>
        d == IF trim(dirArg) # <<>> THEN trim(dirArg) ELSE CwdString
    IN  [ok |-> u # <<>> /\ b # <<>>, url |-> u, branch |-> b, dir |-> d]

\* resolveRepoName (part_001:38-47); <<>> stands for the throw
resolveRepoName(u) ==
    RepoNameMatch(u)

ResolveInputs ==
    /\ pc = "action"
    /\ build = "part_001"
    /\ LET r == resolveInputs(url, branch, dir)
       IN  IF ~r.ok
           THEN Catch(MSG_USAGE) /\ UNCHANGED <<url, branch, dir>>
           ELSE /\ url' = Some(r.url)
                /\ branch' = Some(r.branch)
                /\ dir' = r.dir
                /\ IF resolveRepoName(r.url) = <<>>
                   THEN Catch(MSG_INVALID_URL)
                   ELSE /\ pc' = "ensureDir"
                        /\ UNCHANGED <<failMsg, exitCode, events>>
    /\ UNCHANGED <<tuiVars, shown>>
    /\ UNCHANGED <<build, fs, fs0, runs, argv, tty, ops, prompted>>

(***************************************************************************)
(* part_000:31-65: the prompt for what is missing, then the repository     *)
(* name.  Nothing is trimmed.                                              *)
(***************************************************************************)
\* part_000:61-65, for the url and branch the handler ends up with
ExtractRepoName(u) ==
    IF RepoNameMatch(u.v) = <<>>
    THEN Catch(MSG_INVALID_URL)
    ELSE /\ pc' = "ensureDir"
         /\ UNCHANGED <<failMsg, exitCode, events>>

StartAction ==
    /\ pc = "action"
    /\ build = "part_000"
    /\ IF ~Truthy(url) \/ ~Truthy(branch)
       THEN /\ prompted' = TRUE
            /\ pc' = "prompt"
            /\ UNCHANGED <<failMsg, exitCode, events>>
       ELSE /\ ExtractRepoName(url)
            /\ UNCHANGED prompted
    /\ UNCHANGED <<tuiVars, shown>>
    /\ UNCHANGED <<build, fs, fs0, runs, argv, tty, url, branch, dir, ops>>

\* inquirer.prompt answers (part_000:38-56): on a terminal the user types
\* what is missing; without one the prompt cannot be answered and the
\* process ends, silently or by the rejection of the prompt.
PromptAnswered ==
    /\ pc = "prompt"
    /\ IF tty
       THEN \E ua \in UrlAnswers, ba \in BranchAnswers :
                /\ url' = IF Truthy(url) THEN url ELSE Some(ua)
                /\ branch' = IF Truthy(branch) THEN branch ELSE Some(ba)
                /\ ExtractRepoName(url')
       ELSE /\ \E code \in {0, 1} :
                /\ exitCode' = code
                /\ failMsg' = IF code = 1 THEN MSG_PROMPT_CLOSED ELSE <<>>
            /\ pc' = "done"
            /\ UNCHANGED <<url, branch, events>>
    /\ UNCHANGED <<tuiVars, shown>>
    /\ UNCHANGED <<build, fs, fs0, runs, argv, tty, dir, ops, prompted>>

(***************************************************************************)
(* fs.ensureDir(repoDir) (part_001:158, part_000:72).                      *)
(***************************************************************************)
EnsureDir ==
    /\ pc = "ensureDir"
    /\ IF CanEnsureDir(RepoDir)
       THEN /\ fs' = WithDirs(fs, RepoDir)
            /\ ops' = Append(ops, [Op("ensureDir", RepoDir, <<>>)
                                       EXCEPT !.res = "ok"])
            /\ pc' = "bare"
            /\ UNCHANGED <<failMsg, exitCode, events>>
       ELSE /\ ops' = Append(ops, [Op("ensureDir", RepoDir, <<>>)
                                       EXCEPT !.res = "fail",
                                              !.err = MSG_ENSURE_DIR])
            /\ Catch(MSG_ENSURE_DIR)
            /\ UNCHANGED fs
    /\ UNCHANGED <<tuiVars, shown>>
    /\ UNCHANGED <<build, fs0, runs, argv, tty, url, branch, dir, prompted>>

(***************************************************************************)
(* ensureBareRepository (part_001:65-103, part_000:77-89): the existence   *)
(* check, and the fetch or the clone it starts.                            *)
(***************************************************************************)
StartFetch_NotAwaited ==
    /\ events' = events \o
           <<Event("spinner", "start", "checking"),
             Event("spinner", "succeed", "checking"),
             Event("spinner", "start", "fetching")>>
    /\ ops' = Append(ops, Op("fetch", BareRepoPath, ORIGIN))
    /\ pc' = "worktree"

\* bareRepoPath exists: "Bare repository found", then fetch('origin')
StartFetch ==
    /\ events' = events \o
           <<Event("spinner", "start", "checking"),
             Event("spinner", "succeed", "checking"),
             Event("spinner", "start", "fetching")>>
    /\ ops' = Append(ops, Op("fetch", BareRepoPath, ORIGIN))
    /\ pc' = "fetching"

\* bareRepoPath does not exist: clone(url, bareRepoPath, ['--bare', ...])
StartClone ==
    /\ events' = Append(events, Event("spinner", "start", "cloning"))
    /\ ops' = Append(ops, Op("clone", BareRepoPath, url.v))
    /\ pc' = "cloning"

EnsureBareRepository_AlwaysClones ==
    /\ pc = "bare"
    /\ StartClone
    /\ UNCHANGED <<tuiVars, shown>>
    /\ UNCHANGED <<build, fs, fs0, runs, argv, tty, url, branch, dir,
                   failMsg, exitCode, prompted>>

EnsureBareRepository ==
    /\ pc = "bare"
    /\ IF existsSync(BareRepoPath) THEN StartFetch ELSE StartClone
    /\ UNCHANGED <<tuiVars, shown>>
    /\ UNCHANGED <<build, fs, fs0, runs, argv, tty, url, branch, dir,
                   failMsg, exitCode, prompted>>

\* the fetch ends: it can succeed only in a bare repository, and it leaves
\* the entries of the filesystem as they are
FetchEnds ==
    /\ pc = "fetching"
    /\ \/ /\ fs[BareRepoPath].kind = "bare"
          /\ ops' = Ended("ok", <<>>)
          /\ events' = Append(events, Event("spinner", "succeed", "fetching"))
          /\ pc' = "worktree"
          /\ UNCHANGED <<failMsg, exitCode>>
       \/ \E e \in RepoErrors :
            /\ ops' = Ended("fail", e)
            /\ Catch(e)
    /\ UNCHANGED <<tuiVars, shown>>
    /\ UNCHANGED <<build, fs, fs0, runs, argv, tty, url, branch, dir, prompted>>

\* the clone succeeded: "Repository cloned successfully", and on to next
CloneSucceeds(next) ==
    /\ fs' = WithEntry(fs, BareRepoPath, "bare")
    /\ ops' = Ended("ok", <<>>)
    /\ events' = Append(events, Event("spinner", "succeed", "cloning"))
    /\ pc' = next
    /\ UNCHANGED <<failMsg, exitCode>>

CloneFails_RollsBack(e, left) ==
    /\ fs' = fs0
    /\ ops' = Ended("fail", e)
    /\ Catch(e)

\* the clone threw e: the catch of the action; the clone may have left
\* something at bareRepoPath
CloneFails(e, left) ==
    /\ fs' = IF left THEN WithEntry(fs, BareRepoPath, "partial") ELSE fs
    /\ ops' = Ended("fail", e)
    /\ Catch(e)

CloneEnds_FailureIgnored ==
    /\ pc = "cloning"
    /\ \/ CloneSucceeds("worktree")
       \/ \E e \in RepoErrors, left \in BOOLEAN :
            /\ fs' = IF left THEN WithEntry(fs, BareRepoPath, "partial") ELSE fs
            /\ ops' = Ended("fail", e)
            /\ pc' = "worktree"
            /\ UNCHANGED <<failMsg, exitCode, events>>
    /\ UNCHANGED <<tuiVars, shown>>
    /\ UNCHANGED <<build, fs0, runs, argv, tty, url, branch, dir, prompted>>

CloneEnds_ThenFetches ==
    /\ pc = "cloning"
    /\ \/ CloneSucceeds("bare")
       \/ \E e \in RepoErrors, left \in BOOLEAN : CloneFails(e, left)
    /\ UNCHANGED <<tuiVars, shown>>
    /\ UNCHANGED <<build, fs0, runs, argv, tty, url, branch, dir, prompted>>

CloneEnds ==
    /\ pc = "cloning"
    /\ \/ CloneSucceeds("worktree")
       \/ \E e \in RepoErrors, left \in BOOLEAN : CloneFails(e, left)
    /\ UNCHANGED <<tuiVars, shown>>
    /\ UNCHANGED <<build, fs0, runs, argv, tty, url, branch, dir, prompted>>

(***************************************************************************)
(* createWorktree (part_001:110-135, part_000:91-112).                     *)
(***************************************************************************)
\* worktreePath exists: part_001 throws, and the catch of the action sets
\* the exit status; part_000 reports the failure and returns
PathConflict ==
    /\ IF build = "part_001"
       THEN Catch(ExistsMessage(WorktreePath))
       ELSE /\ failMsg' = ExistsMessage(WorktreePath)
            /\ events' = Append(events, Event("spinner", "fail", "error"))
            /\ pc' = "done"
            /\ UNCHANGED exitCode
    /\ UNCHANGED ops

\* raw(['worktree', 'add', worktreePath, branch])
FirstAttempt ==
    /\ events' = Append(events, Event("spinner", "start", "creating-worktree"))
    /\ ops' = Append(ops, Op("add", WorktreePath, branch.v))
    /\ pc' = "adding"
    /\ UNCHANGED <<failMsg, exitCode>>

CreateWorktree_CheckedEarly ==
    /\ pc = "worktree"
    /\ IF WorktreePath \in DOMAIN fs0 THEN PathConflict ELSE FirstAttempt
    /\ UNCHANGED <<tuiVars, shown>>
    /\ UNCHANGED <<build, fs, fs0, runs, argv, tty, url, branch, dir, prompted>>

CreateWorktree_Unchecked ==
    /\ pc = "worktree"
    /\ FirstAttempt
    /\ UNCHANGED <<tuiVars, shown>>
    /\ UNCHANGED <<build, fs, fs0, runs, argv, tty, url, branch, dir, prompted>>

CreateWorktree ==
    /\ pc = "worktree"
    /\ IF existsSync(WorktreePath) THEN PathConflict ELSE FirstAttempt
    /\ UNCHANGED <<tuiVars, shown>>
    /\ UNCHANGED <<build, fs, fs0, runs, argv, tty, url, branch, dir, prompted>>

RetriesWithNewBranch_Always(message) ==
    TRUE

\* which errors of the first attempt start the retry with -b
\* (part_001:127, part_000:105)
RetriesWithNewBranch(message) ==
    IF build = "part_001" THEN isMissingBranchError(message)
    ELSE MissingBranchMatch000(message)

\* a worktree add succeeded: the worktree is there, and the run is over
WorktreeCreated ==
    /\ fs' = WithEntry(fs, WorktreePath, "worktree")
    /\ ops' = Ended("ok", <<>>)
    /\ events' = Append(events,
                        Event("spinner", "succeed", "creating-worktree"))
    /\ pc' = "done"
    /\ UNCHANGED <<failMsg, exitCode>>

\* 'worktree add <worktreePath> <branch>' ends
AddEnds ==
    /\ pc = "adding"
    /\ \/ WorktreeCreated
       \/ \E e \in AddErrors :
            /\ UNCHANGED fs
            /\ IF RetriesWithNewBranch(e)
               THEN /\ ops' = Append(Ended("fail", e),
                                     Op("addB", WorktreePath, branch.v))
                    /\ pc' = "addingB"
                    /\ UNCHANGED <<failMsg, exitCode, events>>
               ELSE /\ ops' = Ended("fail", e)
                    /\ Catch(e)
    /\ UNCHANGED <<tuiVars, shown>>
    /\ UNCHANGED <<build, fs0, runs, argv, tty, url, branch, dir, prompted>>

AddNewBranchEnds_RetriesAgain ==
    /\ pc = "addingB"
    /\ \/ WorktreeCreated
       \/ \E e \in AddBErrors :
            /\ UNCHANGED fs
            /\ IF RetriesWithNewBranch(e)
               THEN /\ ops' = Append(Ended("fail", e),
                                     Op("addB", WorktreePath, branch.v))
                    /\ pc' = "addingB"
                    /\ UNCHANGED <<failMsg, exitCode, events>>
               ELSE /\ ops' = Ended("fail", e)
                    /\ Catch(e)
    /\ UNCHANGED <<tuiVars, shown>>
    /\ UNCHANGED <<build, fs0, runs, argv, tty, url, branch, dir, prompted>>

\* 'worktree add -b <branch> <worktreePath>' ends
AddNewBranchEnds ==
    /\ pc = "addingB"
    /\ \/ WorktreeCreated
       \/ \E e \in AddBErrors :
            /\ UNCHANGED fs
            /\ ops' = Ended("fail", e)
            /\ Catch(e)
    /\ UNCHANGED <<tuiVars, shown>>
    /\ UNCHANGED <<build, fs0, runs, argv, tty, url, branch, dir, prompted>>

Next ==
    \/ Invoke
    \/ Version
    \/ ResolveInputs
    \/ StartAction
    \/ PromptAnswered
    \/ EnsureDir
    \/ EnsureBareRepository
    \/ FetchEnds
    \/ CloneEnds
    \/ CreateWorktree
    \/ AddEnds
    \/ AddNewBranchEnds

Spec ==
    Init /\ [][Next]_vars

(***************************************************************************)
(* The same command, run on command lines that try the way it reads its    *)
(* arguments: urls with and without a last segment and a .git suffix, a    *)
(* branch token that is a list, and names with '..' in them.               *)
(***************************************************************************)
URL_HOST ==
    <<"h">>
\* last segments of a url
UrlNames ==
    {<<"r">>, <<"r",".","g","i","t">>, <<".",".">>}
UrlsWithName ==
    {URL_HOST \o <<"/">> \o n \o s : n \in UrlNames, s \in {<<>>, GIT_SUFFIX}}
URL_NO_NAME ==
    <<"h","/">>
ProbeUrlArgs ==
    {Undefined} \cup {Some(u) : u \in UrlsWithName \cup {URL_NO_SLASH, URL_NO_NAME}}
BRANCH_LIST ==
    <<"d","e","v",",","m">>
BRANCH_UP ==
    <<".",".">>
BRANCH_UP_X ==
    <<".",".","/","x">>
ProbeBranchArgs ==
    {<<>>, <<BRANCH_DEV>>, <<BRANCH_LIST>>, <<BRANCH_UP>>, <<BRANCH_UP_X>>,
     <<BARE_NAME>>}

InitProbe ==
    /\ Start(CommandLines(ProbeUrlArgs, ProbeBranchArgs, {CwdString}),
             {FsEmpty, FsBare})
    /\ TuiClosed

SpecProbe ==
    InitProbe /\ [][Next]_vars

(***************************************************************************)
(* src/tui.ts: collectInputsWithTui(initial), the full-screen form.  It    *)
(* is a specification of its own: the entry point that calls it is not     *)
(* among the sources.  An action is one run of a handler the form binds;   *)
(* blessed decides which key reaches which handler (a click gives the      *)
(* focus to a textbox without focusAt), so a handler of an element is not  *)
(* tied to focusIndex here, and a handler may still run after the form     *)
(* has settled.                                                            *)
(***************************************************************************)
MSG_CANCELLED ==
    <<"C","a","n","c","e","l","l","e","d"," ","b","y"," ","u","s","e","r",
      ".">>
MSG_URL_REQUIRED ==
    <<"R","e","p","o","s","i","t","o","r","y"," ","U","R","L"," ","i","s",
      " ","r","e","q","u","i","r","e","d",".">>
MSG_BRANCH_REQUIRED ==
    <<"B","r","a","n","c","h"," ","i","s"," ","r","e","q","u","i","r","e",
      "d",".">>
MSG_DIR_REQUIRED ==
    <<"B","a","s","e"," ","d","i","r","e","c","t","o","r","y"," ","i","s",
      " ","r","e","q","u","i","r","e","d",".">>
RED_OPEN ==
    <<"{","r","e","d","-","f","g","}">>
RED_CLOSE ==
    <<"{","/","r","e","d","-","f","g","}">>
MSG_HELP ==
    <<"{","g","r","a","y","-","f","g","}","T","a","b","/","S","h","i","f",
      "t","+","T","a","b"," ","s","w","i","t","c","h"," ","f","o","c","u",
      "s"," ","·"," ","E","n","t","e","r"," ","s","u","b","m","i","t"," ",
      "·"," ","E","s","c"," ","c","a","n","c","e","l","{","/","g","r","a",
      "y","-","f","g","}">>

\* const focusables (tui.ts:152)
focusables ==
    <<"urlInput", "branchInput", "dirInput", "submitButton", "cancelButton">>

\* what a textbox can hold
FieldTexts ==
    {<<>>, <<" ">>, <<" ", "x">>}
\* the argument of collectInputsWithTui
InitialInputs ==
    [url : {Undefined, Some(<<" ", "x">>)},
     branch : {Undefined, Some(<<" ">>)},
     dir : {Undefined, Some(<<>>), Some(DIR_T)}]

\* toInitialValue (tui.ts:59)
toInitialValue(value) ==
    IF value.present THEN trim(value.v) ELSE <<>>

NoInputs ==
    [url |-> <<>>, branch |-> <<>>, dir |-> <<>>]

InitTui ==
    /\ \E initial \in InitialInputs :
         values = [url |-> toInitialValue(initial.url),
                   branch |-> toInitialValue(initial.branch),
                   dir |-> toInitialValue(IF Truthy(initial.dir)
                                          THEN initial.dir
                                          ELSE Some(CwdString))]
    /\ focusIndex = 0
    /\ settled = FALSE
    /\ promise = [state |-> "pending", inputs |-> NoInputs, error |-> <<>>]
    /\ messageBox = MSG_HELP
    /\ effects = <<>>
    /\ key = "none"
    \* the command is not part of this specification
    /\ build = "tui"
    /\ fs = FsEmpty
    /\ fs0 = FsEmpty
    /\ runs = 0
    /\ argv = [url |-> Undefined, branches |-> <<>>, dir |-> CwdString,
               version |-> FALSE]
    /\ tty = TRUE
    /\ pc = "tui"
    /\ url = Undefined
    /\ branch = Undefined
    /\ dir = <<>>
    /\ ops = <<>>
    /\ events = <<>>
    /\ failMsg = <<>>
    /\ exitCode = 0
    /\ prompted = FALSE
    /\ shown = NoVersion

focusAt_NotNormalized(index) ==
    focusIndex' = index

\* focusAt (tui.ts:156-166)
focusAt(index) ==
    focusIndex' = (index + Len(focusables)) % Len(focusables)

\* setError (tui.ts:168-171)
setError(content) ==
    messageBox' = RED_OPEN \o content \o RED_CLOSE

\* resolve or reject of a promise: only the first one counts
Resolved(inputs) ==
    IF promise.state = "pending"
    THEN [state |-> "resolved", inputs |-> inputs, error |-> <<>>]
    ELSE promise
Rejected(error) ==
    IF promise.state = "pending"
    THEN [state |-> "rejected", inputs |-> NoInputs, error |-> error]
    ELSE promise

settle_Unguarded(handler, after) ==
    /\ settled' = TRUE
    /\ effects' = effects \o <<"destroy", handler>>
    /\ promise' = after

settle_HandlerFirst(handler, after) ==
    IF settled
    THEN UNCHANGED <<settled, effects, promise>>
    ELSE /\ settled' = TRUE
         /\ effects' = effects \o <<handler, "destroy">>
         /\ promise' = after

\* settle (tui.ts:177-185): cleanup (tui.ts:173-175) is screen.destroy();
\* handler names the call the handler makes, after the promise it leaves
settle(handler, after) ==
    IF settled
    THEN UNCHANGED <<settled, effects, promise>>
    ELSE /\ settled' = TRUE
         /\ effects' = effects \o <<"destroy", handler>>
         /\ promise' = after

\* cancel (tui.ts:187-189)
cancel ==
    /\ settle("reject", Rejected(MSG_CANCELLED))
    /\ UNCHANGED <<focusIndex, messageBox>>

submit_Untrimmed ==
    IF values.url = <<>>
    THEN /\ setError(MSG_URL_REQUIRED)
         /\ focusAt(0)
         /\ UNCHANGED <<settled, effects, promise>>
    ELSE IF values.branch = <<>>
    THEN /\ setError(MSG_BRANCH_REQUIRED)
         /\ focusAt(1)
         /\ UNCHANGED <<settled, effects, promise>>
    ELSE IF values.dir = <<>>
    THEN /\ setError(MSG_DIR_REQUIRED)
         /\ focusAt(2)
         /\ UNCHANGED <<settled, effects, promise>>
    ELSE /\ settle("resolve", Resolved(values))
         /\ UNCHANGED <<focusIndex, messageBox>>

\* submit (tui.ts:191-215)
submit ==
    LET u == trim(values.url)
        b == trim(values.branch)
        d == trim(values.dir)
    IN  IF u = <<>>
        THEN /\ setError(MSG_URL_REQUIRED)
             /\ focusAt(0)
             /\ UNCHANGED <<settled, effects, promise>>
        ELSE IF b = <<>>
        THEN /\ setError(MSG_BRANCH_REQUIRED)
             /\ focusAt(1)
             /\ UNCHANGED <<settled, effects, promise>>
        ELSE IF d = <<>>
        THEN /\ setError(MSG_DIR_REQUIRED)
             /\ focusAt(2)
             /\ UNCHANGED <<settled, effects, promise>>
        ELSE /\ settle("resolve", Resolved([url |-> u, branch |-> b, dir |-> d]))
             /\ UNCHANGED <<focusIndex, messageBox>>

\* the user edits a textbox (inputOnFocus, tui.ts:34-50)
Type ==
    /\ ~settled
    /\ \E f \in {"url", "branch", "dir"}, text \in FieldTexts :
         values' = [values EXCEPT ![f] = text]
    /\ key' = "text"
    /\ UNCHANGED <<focusIndex, settled, promise, messageBox, effects>>
    /\ UNCHANGED cliVars

\* screen.key(['tab'], ...) and screen.key(['S-tab'], ...) (tui.ts:217-218)
Tab ==
    /\ focusAt(focusIndex + 1)
    /\ key' = "tab"
    /\ UNCHANGED <<values, settled, promise, messageBox, effects>>
    /\ UNCHANGED cliVars
ShiftTab ==
    /\ focusAt(focusIndex - 1)
    /\ key' = "S-tab"
    /\ UNCHANGED <<values, settled, promise, messageBox, effects>>
    /\ UNCHANGED cliVars

\* screen.key(['escape', 'q', 'C-c'], cancel) and the press of the Cancel
\* button (tui.ts:219, 226)
CancelKeys ==
    {"escape", "q", "C-c", "press cancel"}
Cancel ==
    /\ \E k \in CancelKeys : key' = k
    /\ cancel
    /\ UNCHANGED values
    /\ UNCHANGED cliVars

\* screen.key(['C-s'], submit), enter in the dir textbox, the press of the
\* Submit button and the submit of the form (tui.ts:220, 224, 225, 228)
SubmitKeys ==
    {"C-s", "enter dir", "press submit", "form submit"}
Submit ==
    /\ \E k \in SubmitKeys : key' = k
    /\ submit
    /\ UNCHANGED values
    /\ UNCHANGED cliVars

\* enter in the url textbox and in the branch textbox (tui.ts:222-223)
EnterUrl ==
    /\ focusAt(1)
    /\ key' = "enter url"
    /\ UNCHANGED <<values, settled, promise, messageBox, effects>>
    /\ UNCHANGED cliVars
EnterBranch ==
    /\ focusAt(2)
    /\ key' = "enter branch"
    /\ UNCHANGED <<values, settled, promise, messageBox, effects>>
    /\ UNCHANGED cliVars

NextTui ==
    \/ Type
    \/ Tab
    \/ ShiftTab
    \/ Cancel
    \/ Submit
    \/ EnterUrl
    \/ EnterBranch

SpecTui ==
    InitTui /\ [][NextTui]_vars

(***************************************************************************)
(* Vocabulary of the properties.                                           *)
(***************************************************************************)
\* positions in ops of the operations of the given kinds
Issued(kinds) ==
    {i \in DOMAIN ops : ops[i].op \in kinds}
WorktreeOps ==
    {"add", "addB"}
RepoOps ==
    {"clone", "fetch"}
\* the run got past the validation of its inputs
PassedValidation ==
    \/ pc \in {"ensureDir", "bare", "fetching", "cloning", "worktree",
               "adding", "addingB"}
    \/ pc = "done" /\ ops # <<>>
\* the bare-repository step of the run has succeeded
BareStepSucceeded ==
    \E i \in Issued(RepoOps) : ops[i].res = "ok"
\* a message of the branch-not-found class: one of the two phrases, in any
\* letter case
BranchNotFoundClass(message) ==
    \/ includes(toLowerCase(message), PAT_INVALID_REFERENCE)
    \/ includes(toLowerCase(message), PAT_NOT_A_VALID_OBJECT_NAME)

(***************************************************************************)
(* C1. A branch whose worktreePath exists when the worktree step checks it *)
(* fails with a message that says the path already exists; no worktree add *)
(* (plain or -b) is issued for it and the filesystem stays as it was.  A   *)
(* second run after a successful first one is such a case.                 *)
(***************************************************************************)
C1_PathConflictFails ==
    [][(pc = "worktree" /\ WorktreePath \in DOMAIN fs)
         => /\ fs' = fs
            /\ pc' = "done"
            /\ includes(failMsg', PHRASE_ALREADY_EXISTS)
            /\ includes(failMsg', pathString(WorktreePath))
            /\ events'[Len(events')].status = "fail"
            /\ Issued(WorktreeOps)' = {}]_vars

C1_SecondRunConflicts ==
    /\ runs = 2
    /\ pc = "done"
    /\ PassedValidation
    /\ WorktreePath \in DOMAIN fs0
    /\ fs0[WorktreePath] = Entry("worktree", 1)
    /\ fs = fs0
    /\ failMsg = ExistsMessage(WorktreePath)
    /\ Issued(WorktreeOps) = {}

(***************************************************************************)
(* C3. When the first worktree add fails with a message outside the        *)
(* branch-not-found class, the -b variant is never issued for the branch,  *)
(* the error is the one reported and the run exits non-zero.               *)
(***************************************************************************)
C3_OtherErrorIsFatal ==
    \A i \in Issued({"add"}) :
        (ops[i].res = "fail" /\ ~BranchNotFoundClass(ops[i].err))
          => /\ Issued({"addB"}) = {}
             /\ pc = "done"
             /\ failMsg = ops[i].err
             /\ exitCode # 0

C3_PermissionDenied ==
    /\ pc = "done"
    /\ \E i \in Issued({"add"}) : ops[i].res = "fail" /\ ops[i].err = GE_PERMISSION
    /\ exitCode = 1

(***************************************************************************)
(* C4. If the clone or the fetch fails the run aborts: no worktree add is  *)
(* issued, the failure reported is that of the clone or fetch, and the     *)
(* exit status is non-zero.  Every worktree add of a run comes after a     *)
(* successful clone or fetch of the same run.                              *)
(***************************************************************************)
C4_BareFailureAborts ==
    /\ \A j \in Issued(RepoOps) :
           ops[j].res = "fail"
             => /\ Issued(WorktreeOps) = {}
                /\ pc = "done"
                /\ failMsg = ops[j].err
                /\ exitCode # 0
    /\ \A i \in Issued(WorktreeOps) :
           \E j \in Issued(RepoOps) : j < i /\ ops[j].res = "ok"

C4_CloneFailed ==
    /\ pc = "done"
    /\ \E j \in Issued({"clone"}) : ops[j].res = "fail"
    /\ exitCode = 1

(***************************************************************************)
(* C5. The bare-repository step chooses by the existence of bareRepoPath   *)
(* when it checks: if it exists, a fetch of origin inside it and never a   *)
(* clone, and what is at bareRepoPath is never replaced; if it does not,   *)
(* repoDir has been ensured and a bare clone of url into bareRepoPath is   *)
(* started, and no fetch is run.                                           *)
(***************************************************************************)
C5_FetchOrClone ==
    /\ [][pc = "bare" /\ pc' # "bare"
            => LET o == ops'[Len(ops')]
               IN  /\ Len(ops') = Len(ops) + 1
                   /\ o.path = BareRepoPath
                   /\ fs' = fs
                   /\ IF BareRepoPath \in DOMAIN fs
                      THEN o.op = "fetch" /\ o.arg = ORIGIN
                      ELSE /\ o.op = "clone" /\ o.arg = url.v
                           /\ RepoDir \in DOMAIN fs
                           /\ ops[Len(ops)].op = "ensureDir"
                           /\ ops[Len(ops)].path = RepoDir]_vars
    /\ [](Issued({"clone"}) = {} \/ Issued({"fetch"}) = {})
    /\ [][(PassedValidation /\ PassedValidation'
           /\ BareRepoPath \in DOMAIN fs)
            => /\ BareRepoPath \in DOMAIN fs'
               /\ fs'[BareRepoPath] = fs[BareRepoPath]]_vars

C5_FetchedWhatWasCloned ==
    /\ runs = 2
    /\ pc = "worktree"
    /\ fs[BareRepoPath] = Entry("bare", 1)
    /\ ops[Len(ops)].op = "fetch"
    /\ ops[Len(ops)].res = "ok"

(***************************************************************************)
(* What a run was asked for.  The tokens of the model hold no comma and no *)
(* inner white space, so a token names at most one branch: itself,         *)
(* trimmed.  Without tokens the branch is the one the prompt collected.    *)
(***************************************************************************)
RequestedBranches ==
    IF argv.branches # <<>>
    THEN {trim(argv.branches[k]) : k \in DOMAIN argv.branches} \ {<<>>}
    ELSE IF branch.present THEN {trim(branch.v)} \ {<<>>} ELSE {}
WorktreeOf(b) ==
    pathJoin(RepoDir, b)
\* the current run made the worktree of b
Created(b) ==
    /\ WorktreeOf(b) \in DOMAIN fs
    /\ fs[WorktreeOf(b)] = Entry("worktree", runs)
\* the current run attempted the worktree of b: it issued the plain add for
\* it, or reported that its path exists
Attempted(b) ==
    \/ \E i \in Issued({"add"}) : ops[i].arg = b /\ ops[i].path = WorktreeOf(b)
    \/ failMsg = ExistsMessage(WorktreeOf(b))
\* the command line asks for the version: its runs write it and provision
\* nothing
VersionAsked ==
    argv.version
\* the prompt of the run was invoked and never answered: the run has no
\* inputs to validate
PromptUnanswered ==
    prompted /\ (~Truthy(url) \/ ~Truthy(branch))
\* the inputs of the run fail validation: no url or an empty one, no branch
\* or an empty one, after trimming, or no repository name in the url
InputsFailValidation ==
    /\ pc \notin {"idle", "action", "prompt"}
    /\ ~VersionAsked
    /\ ~PromptUnanswered
    /\ \/ ~url.present \/ trim(url.v) = <<>>
       \/ ~branch.present \/ trim(branch.v) = <<>>
       \/ RepoNameMatch(trim(url.v)) = <<>>

(***************************************************************************)
(* C2. When the first worktree add fails with a message of the             *)
(* branch-not-found class (either phrase, in any letter case), the next    *)
(* operation is 'worktree add -b' for the same branch and path, and the    *)
(* outcome of the branch is the outcome of that retry.  (Stated of the     *)
(* runs whose inputs are valid.)                                           *)
(***************************************************************************)
C2_RetriesWithNewBranch ==
    \A i \in Issued({"add"}) :
        (/\ ~InputsFailValidation
         /\ ops[i].res = "fail"
         /\ BranchNotFoundClass(ops[i].err))
          => /\ Len(ops) > i
             /\ ops[i + 1].op = "addB"
             /\ ops[i + 1].path = ops[i].path
             /\ ops[i + 1].arg = ops[i].arg
             /\ ops[i + 1].res = "ok"
                  => pc = "done" /\ exitCode = 0 /\ Created(ops[i].arg)
             /\ ops[i + 1].res = "fail"
                  => pc = "done" /\ exitCode # 0 /\ failMsg = ops[i + 1].err

C7_ExitStatus ==
    (pc = "done" /\ ~VersionAsked /\ ~PromptUnanswered)
      => (exitCode = 0
            <=> /\ PassedValidation
                /\ BareStepSucceeded
                /\ RequestedBranches # {}
                /\ \A b \in RequestedBranches : Created(b))

(***************************************************************************)
(* C8. Once the bare-repository step has succeeded, worktree creation is   *)
(* attempted for every requested branch, whatever happened to the branches *)
(* before it: when the run is over, each requested branch has had its      *)
(* attempt.  (The exit status of such a run is the subject of C7.)         *)
(***************************************************************************)
C8_EveryBranchAttempted ==
    (pc = "done" /\ PassedValidation /\ BareStepSucceeded)
      => \A b \in RequestedBranches : Attempted(b)

(***************************************************************************)
(* C9. A run whose inputs fail validation ends with a non-zero exit status *)
(* before any side effect: it issues no operation and the filesystem is as *)
(* the run found it.                                                       *)
(***************************************************************************)
C9_NoSideEffectBeforeValidation ==
    InputsFailValidation
      => /\ pc = "done"
         /\ exitCode # 0
         /\ ops = <<>>
         /\ fs = fs0

(***************************************************************************)
(* C10. Without a terminal, a run that lacks the url or the branch fails   *)
(* with 'Missing required arguments in non-interactive mode' and a         *)
(* non-zero exit status, never prompts and issues no operation.  (Stated    *)
(* of the command lines that do not ask for the version.)                  *)
(***************************************************************************)
C10_MissingArgumentsNonInteractive ==
    (pc = "done" /\ ~tty /\ ~VersionAsked
       /\ (~argv.url.present \/ argv.branches = <<>>))
      => /\ includes(toLowerCase(failMsg),
                     toLowerCase(MSG_MISSING_NON_INTERACTIVE))
         /\ exitCode # 0
         /\ ~prompted
         /\ ops = <<>>

(***************************************************************************)
(* The branch parsing rules (README.md:43-55): the tokens are split on     *)
(* commas and whitespace, the pieces trimmed, the empty ones dropped, and  *)
(* of equal names the first is kept.                                       *)
(***************************************************************************)
IsSeparator(c) ==
    c = "," \/ c \in WhiteSpace
RECURSIVE SplitPieces(_)
SplitPieces(s) ==
    IF s = <<>> THEN <<>>
    ELSE IF IsSeparator(Head(s)) THEN SplitPieces(Tail(s))
    ELSE LET seps == {i \in 1..Len(s) : IsSeparator(s[i])}
             n    == IF seps = {} THEN Len(s)
                     ELSE (CHOOSE i \in seps : \A j \in seps : i <= j) - 1
         IN  <<trim(SubSeq(s, 1, n))>> \o SplitPieces(SubSeq(s, n + 1, Len(s)))
RECURSIVE PiecesOf(_)
PiecesOf(tokens) ==
    IF tokens = <<>> THEN <<>>
    ELSE SplitPieces(Head(tokens)) \o PiecesOf(Tail(tokens))
RECURSIVE Deduplicated(_)
Deduplicated(q) ==
    IF q = <<>> THEN <<>>
    ELSE LET r == Deduplicated(SubSeq(q, 1, Len(q) - 1))
             l == q[Len(q)]
         IN  IF \E i \in DOMAIN r : r[i] = l THEN r ELSE Append(r, l)
ParsedBranches ==
    Deduplicated(PiecesOf(argv.branches))
\* the branch names of the worktree adds of the run, first attempts only,
\* in the order they were issued
RECURSIVE AddedBranches(_)
AddedBranches(n) ==
    IF n = 0 THEN <<>>
    ELSE IF ops[n].op = "add" THEN Append(AddedBranches(n - 1), ops[n].arg)
    ELSE AddedBranches(n - 1)

(***************************************************************************)
(* C11. The branches a run attempts are the parsed branch list of its      *)
(* command line: every worktree add is for a name of that list, the adds   *)
(* follow the order of the list with no name twice, a run that ends with   *)
(* status 0 has attempted every name of it, and a command line whose list  *)
(* is empty is a validation error.                                         *)
(***************************************************************************)
C11_BranchListParsed ==
    (argv.branches # <<>> /\ pc \notin {"idle", "action", "prompt"})
      => /\ \E k \in 0..Len(ParsedBranches) :
                AddedBranches(Len(ops)) = SubSeq(ParsedBranches, 1, k)
         /\ (pc = "done" /\ exitCode = 0)
                => \A i \in DOMAIN ParsedBranches :
                      Attempted(ParsedBranches[i])
         /\ (pc = "done" /\ ParsedBranches = <<>>)
                => exitCode # 0 /\ ops = <<>>

(***************************************************************************)
(* Vocabulary of C12: the url the run resolves the repository name of.     *)
(***************************************************************************)
\* the run got as far as the resolution of the repository name
NameResolutionReached ==
    /\ pc \notin {"idle", "action", "prompt"}
    /\ shown = NoVersion
    /\ ~PromptUnanswered
    /\ failMsg \notin {MSG_USAGE, MSG_MISSING_ARGUMENT, MSG_TOO_MANY_ARGUMENTS}
\* s is a non-empty string without '/'
IsName(s) ==
    s # <<>> /\ \A i \in DOMAIN s : s[i] # "/"
\* s is a non-empty string followed by .git
HasGitSuffix(s) ==
    /\ Len(s) > Len(GIT_SUFFIX)
    /\ SubSeq(s, Len(s) - Len(GIT_SUFFIX) + 1, Len(s)) = GIT_SUFFIX
\* s without its last Len(GIT_SUFFIX) characters
Stem(s) ==
    SubSeq(s, 1, Len(s) - Len(GIT_SUFFIX))
\* the name resolution of the run failed: the 'Invalid Git URL' error, and
\* nothing done
InvalidGitUrl ==
    pc = "done" /\ failMsg = MSG_INVALID_URL /\ exitCode # 0 /\ ops = <<>>
\* the run resolved the repository name to name: repoDir is made under it
ResolvedTo(name) ==
    /\ resolveRepoName(url.v) = name
    /\ ~InvalidGitUrl
    /\ ops # <<>> => ops[1].path = pathJoin(pathResolve(dir), name)
\* the urls without a last segment: no '/', or nothing after the last one
NoLastSegment(u) ==
    \/ \A i \in DOMAIN u : u[i] # "/"
    \/ u # <<>> /\ u[Len(u)] = "/"

(***************************************************************************)
(* C12, as stated.  For every url that ends in '/name' or in '/name.git',  *)
(* name non-empty and without '/', the repository name is name; a url      *)
(* without a last segment fails with the 'Invalid Git URL' error.          *)
(***************************************************************************)
C12_RepoNameOfUrl ==
    NameResolutionReached
      => /\ \A i \in DOMAIN url.v :
               LET name == SubSeq(url.v, i + 1, Len(url.v))
               IN  (url.v[i] = "/" /\ IsName(name))
                     => /\ ResolvedTo(name)
                        /\ (HasGitSuffix(name) /\ IsName(Stem(name)))
                             => ResolvedTo(Stem(name))
         /\ NoLastSegment(url.v) => InvalidGitUrl

(***************************************************************************)
(* C12, amended.  For every url that ends in '/name.git', name non-empty   *)
(* and without '/', the repository name is name; for every url that ends   *)
(* in '/name', it is name unless name is itself a non-empty string         *)
(* followed by '.git'; a url without a last segment fails with the         *)
(* 'Invalid Git URL' error and nothing is done.                            *)
(***************************************************************************)
C12_RepoNameOfUrlAmended ==
    NameResolutionReached
      => /\ \A i \in DOMAIN url.v :
               LET name == SubSeq(url.v, i + 1, Len(url.v))
               IN  (url.v[i] = "/" /\ IsName(name))
                     => IF HasGitSuffix(name)
                        THEN ResolvedTo(Stem(name))
                        ELSE ResolvedTo(name)
         /\ NoLastSegment(url.v) => InvalidGitUrl

\* a run was given a url that ends in /r.git.git, made its directory under
\* r.git and ended with status 0
C12_SuffixStrippedOnce ==
    /\ NameResolutionReached
    /\ url.v = URL_HOST \o <<"/">> \o <<"r">> \o GIT_SUFFIX \o GIT_SUFFIX
    /\ pc = "done" /\ exitCode = 0
    /\ ops # <<>>
    /\ ops[1].path = Cwd \o <<<<"r">> \o GIT_SUFFIX>>

(***************************************************************************)
(* C13. The layout.  Every clone and fetch of a run is at                  *)
(* join(baseDir, repoName, '.bare') and every worktree add at              *)
(* join(baseDir, repoName, branch), for the baseDir, url and branch the    *)
(* run accepted, whatever the filesystem holds; and when the run has       *)
(* ended with status 0 both paths exist.                                   *)
(***************************************************************************)
\* path.join(base, a, b)
Join3(base, a, b) ==
    normalize(base \o splitSlash(a) \o splitSlash(b), <<>>)

C13_Layout ==
    PassedValidation
      => LET base == pathResolve(dir)
             name == resolveRepoName(url.v)
         IN  /\ \A i \in Issued(RepoOps) :
                   ops[i].path = Join3(base, name, BARE_NAME)
             /\ \A i \in Issued(WorktreeOps) :
                   ops[i].path = Join3(base, name, branch.v)
             /\ (pc = "done" /\ exitCode = 0)
                   => /\ Join3(base, name, BARE_NAME) \in DOMAIN fs
                      /\ Join3(base, name, branch.v) \in DOMAIN fs

\* a run with --dir T has cloned into /w/T/r/.bare and made the worktree
\* /w/T/r/dev
C13_BothPlaced ==
    /\ pc = "done" /\ exitCode = 0 /\ PassedValidation
    /\ argv.dir = DIR_T
    /\ \E i \in Issued({"clone"}) :
          ops[i].path = <<<<"w">>, DIR_T, <<"r">>, BARE_NAME>>
    /\ <<<<"w">>, DIR_T, <<"r">>, BARE_NAME>> \in DOMAIN fs
    /\ <<<<"w">>, DIR_T, <<"r">>, BRANCH_DEV>> \in DOMAIN fs
    /\ fs[<<<<"w">>, DIR_T, <<"r">>, BRANCH_DEV>>] = Entry("worktree", runs)

(***************************************************************************)
(* C14. Nothing is deleted or rolled back.  No step removes or changes an  *)
(* entry of the filesystem.  The step in which a fetch fails ends the run  *)
(* with a non-zero status and the error of the fetch, and leaves the bare  *)
(* repository the run found; the step in which a clone fails ends the run  *)
(* the same way, issues no further operation, and leaves repoDir and       *)
(* whatever the clone wrote at bareRepoPath.                               *)
(***************************************************************************)
C14_NothingDeleted ==
    [][/\ \A p \in DOMAIN fs : p \in DOMAIN fs' /\ fs'[p] = fs[p]
       /\ (pc = "fetching" /\ pc' = "done")
            => /\ exitCode' # 0
               /\ failMsg' = ops'[Len(ops')].err /\ failMsg' # <<>>
               /\ BareRepoPath \in DOMAIN fs0
               /\ BareRepoPath \in DOMAIN fs'
               /\ fs'[BareRepoPath] = fs0[BareRepoPath]
       /\ (pc = "cloning" /\ pc' = "done")
            => /\ exitCode' # 0
               /\ failMsg' = ops'[Len(ops')].err /\ failMsg' # <<>>
               /\ Len(ops') = Len(ops)
               /\ RepoDir \in DOMAIN fs'
               /\ \A p \in DOMAIN fs0 : p \in DOMAIN fs' /\ fs'[p] = fs0[p]
      ]_vars

\* the clone of the first run failed and left something at bareRepoPath;
\* the second run found it, its fetch failed, and it is still there
C14_PartialCloneKept ==
    /\ runs = 2 /\ pc = "done" /\ exitCode = 1
    /\ ops # <<>>
    /\ ops[Len(ops)].op = "fetch" /\ ops[Len(ops)].res = "fail"
    /\ BareRepoPath \in DOMAIN fs
    /\ fs[BareRepoPath] = Entry("partial", 1)

(***************************************************************************)
(* C15. The git operations of a run are serialized: at most one operation  *)
(* is in flight, it is the one issued last (nothing is issued before the   *)
(* operation before it has ended), and while it is in flight the run does  *)
(* nothing but wait for it to end.                                         *)
(***************************************************************************)
InFlight ==
    {i \in DOMAIN ops : ops[i].res = "pending"}

C15_Serialized ==
    /\ Cardinality(InFlight) <= 1
    /\ \A i \in InFlight : i = Len(ops)
    /\ InFlight # {}
         => /\ pc \in {"fetching", "cloning", "adding", "addingB"}
            /\ ops[Len(ops)].op \in RepoOps \cup WorktreeOps

\* the retry with -b is in flight, after a clone and a first attempt that
\* have both ended
C15_RetryInFlight ==
    /\ pc = "addingB"
    /\ InFlight = {Len(ops)}
    /\ ops[Len(ops)].op = "addB"
    /\ \E i \in Issued({"clone"}) : ops[i].res = "ok"
    /\ \E i \in Issued({"add"}) : ops[i].res = "fail"

(***************************************************************************)
(* C16. A cancel (Escape, q, Ctrl-C or the Cancel button) of a form that   *)
(* has not settled settles it: the screen is destroyed, then the promise   *)
(* is rejected with the error 'Cancelled by user.'; and a promise that     *)
(* was rejected is never resolved.                                         *)
(***************************************************************************)
C16_CancelRejects ==
    /\ [][(key' \in CancelKeys /\ ~settled)
            => /\ settled'
               /\ promise.state = "pending"
               /\ promise' = [state |-> "rejected", inputs |-> NoInputs,
                              error |-> MSG_CANCELLED]
               /\ effects' = effects \o <<"destroy", "reject">>
               /\ effects = <<>>]_vars
    /\ [][promise.state = "rejected"
            => promise' = promise /\ effects' = effects]_vars

\* the form held a url and a dir, q was pressed, and the promise was
\* rejected after the screen was destroyed
C16_CancelledByQ ==
    /\ key = "q"
    /\ trim(values.url) # <<>> /\ trim(values.dir) # <<>>
    /\ promise.state = "rejected" /\ promise.error = MSG_CANCELLED
    /\ effects = <<"destroy", "reject">>

(***************************************************************************)
(* C17. The form resolves only with a url, a branch and a dir that are     *)
(* trimmed and non-empty.  A submit of a form that has not settled, with   *)
(* one of them empty after trimming, leaves it unsettled, shows the error  *)
(* of the first empty one in the order url, branch, dir, and moves the     *)
(* focus to index 0, 1 or 2; with none empty it resolves the promise with  *)
(* the trimmed values.                                                     *)
(***************************************************************************)
\* the index of the first field that is empty after trimming, 3 if none
FirstEmpty ==
    IF trim(values.url) = <<>> THEN 0
    ELSE IF trim(values.branch) = <<>> THEN 1
    ELSE IF trim(values.dir) = <<>> THEN 2
    ELSE 3
RequiredMessage ==
    <<MSG_URL_REQUIRED, MSG_BRANCH_REQUIRED, MSG_DIR_REQUIRED>>

C17_SubmitValidates ==
    /\ [](promise.state = "resolved"
            => \A f \in {"url", "branch", "dir"} :
                  /\ promise.inputs[f] # <<>>
                  /\ promise.inputs[f] = trim(promise.inputs[f]))
    /\ [][(key' \in SubmitKeys /\ ~settled /\ FirstEmpty < 3)
            => /\ ~settled'
               /\ promise' = promise /\ promise.state = "pending"
               /\ effects' = effects
               /\ messageBox' = RED_OPEN \o RequiredMessage[FirstEmpty + 1]
                                          \o RED_CLOSE
               /\ focusIndex' = FirstEmpty]_vars
    /\ [][(key' \in SubmitKeys /\ ~settled /\ FirstEmpty = 3)
            => /\ settled'
               /\ promise' = [state |-> "resolved",
                              inputs |-> [url |-> trim(values.url),
                                          branch |-> trim(values.branch),
                                          dir |-> trim(values.dir)],
                              error |-> <<>>]]_vars

\* the branch textbox held only a blank when the form was submitted: the
\* form is unsettled, shows 'Branch is required.' and the focus is on it
C17_BlankBranchRefused ==
    /\ key \in SubmitKeys
    /\ ~settled /\ promise.state = "pending"
    /\ trim(values.url) # <<>>
    /\ values.branch = <<" ">>
    /\ messageBox = RED_OPEN \o MSG_BRANCH_REQUIRED \o RED_CLOSE
    /\ focusIndex = 1

(***************************************************************************)
(* C18. A run with --version writes the version that package.json holds    *)
(* and ends with status 0; it does not prompt, issues no operation and     *)
(* leaves the filesystem as it found it.                                   *)
(***************************************************************************)
C18_VersionFromPackageJson ==
    (argv.version /\ pc = "done")
      => /\ shown.out # <<>>
         /\ shown.out = shown.package
         /\ exitCode = 0
         /\ ~prompted
         /\ ops = <<>>
         /\ fs = fs0

(***************************************************************************)
(* C19. One fallback retry.  A run issues at most two worktree adds for    *)
(* its branch and at most one of them with -b; the one with -b comes       *)
(* right after a plain add for the same branch and path that failed with   *)
(* a message of the branch-not-found class; and when the one with -b       *)
(* fails, whatever its message, it is the last operation of the run,       *)
(* which ends with that error and a non-zero status.                       *)
(***************************************************************************)
C19_OneRetry ==
    /\ Cardinality(Issued(WorktreeOps)) <= 2
    /\ Cardinality(Issued({"addB"})) <= 1
    /\ \A i \in Issued({"addB"}) :
          /\ i > 1
          /\ ops[i - 1].op = "add"
          /\ ops[i - 1].res = "fail"
          /\ BranchNotFoundClass(ops[i - 1].err)
          /\ ops[i - 1].arg = ops[i].arg
          /\ ops[i - 1].path = ops[i].path
          /\ ops[i].res = "fail"
               => /\ i = Len(ops)
                  /\ pc = "done"
                  /\ exitCode # 0
                  /\ failMsg = ops[i].err

\* the retry with -b failed with a message of the branch-not-found class
\* itself, and the run ended there
C19_RetryFailedTheSameWay ==
    /\ pc = "done" /\ exitCode # 0
    /\ ops # <<>>
    /\ ops[Len(ops)].op = "addB"
    /\ ops[Len(ops)].res = "fail"
    /\ BranchNotFoundClass(ops[Len(ops)].err)
    /\ Cardinality(Issued(WorktreeOps)) = 2

(***************************************************************************)
(* C20. Every path stays inside the workspace, stated of the paths a run   *)
(* uses: the repoDir it makes is strictly inside baseDir, and every        *)
(* clone, fetch and worktree add targets a path strictly inside repoDir.   *)
(***************************************************************************)
\* path p is below path q
StrictlyInside(p, q) ==
    Len(p) > Len(q) /\ SubSeq(p, 1, Len(q)) = q

C20_PathsInsideWorkspace ==
    /\ \A i \in Issued({"ensureDir"}) :
          StrictlyInside(ops[i].path, pathResolve(dir))
    /\ \A i \in Issued(RepoOps \cup WorktreeOps) :
          StrictlyInside(ops[i].path, ops[1].path)

(***************************************************************************)
(* C21. The progress events are paired.  A phase is started by start on    *)
(* the spinner of the run and ended by succeed or fail on that spinner.    *)
(* No phase is started while another is open, a succeed is for the phase   *)
(* that is open, and no phase is open when the run has ended.  (Stated of  *)
(* the runs whose inputs are valid.)                                       *)
(***************************************************************************)
\* the phase that is open on the spinner of the run after its first n
\* events, "" if none (a fail on another spinner ends nothing)
RECURSIVE OpenPhase(_)
OpenPhase(n) ==
    IF n = 0 THEN ""
    ELSE IF events[n].sp # "spinner" THEN OpenPhase(n - 1)
    ELSE IF events[n].status = "start" THEN events[n].phase
    ELSE ""

C21_EventsPaired ==
    ~InputsFailValidation
      => /\ \A n \in DOMAIN events :
               /\ (events[n].sp = "spinner" /\ events[n].status = "start")
                    => OpenPhase(n - 1) = ""
               /\ events[n].status = "succeed"
                    => /\ events[n].sp = "spinner"
                       /\ OpenPhase(n - 1) = events[n].phase
         /\ pc = "done" => OpenPhase(Len(events)) = ""

(***************************************************************************)
(* C22. The form settles at most once.  Once settled is true it stays      *)
(* true, and no later submit or cancel resolves, rejects or destroys       *)
(* anything; the event that settles the form decides the outcome (a        *)
(* cancel rejects, a submit resolves); and the screen is destroyed         *)
(* exactly once, before the one resolve or reject.                         *)
(***************************************************************************)
C22_SettledOnce ==
    /\ [][settled => /\ settled'
                     /\ promise' = promise
                     /\ effects' = effects]_vars
    /\ [][(~settled /\ settled')
            => /\ key' \in CancelKeys \cup SubmitKeys
               /\ key' \in CancelKeys => promise'.state = "rejected"
               /\ key' \in SubmitKeys => promise'.state = "resolved"]_vars
    /\ [](IF settled
          THEN \/ effects = <<"destroy", "resolve">> /\ promise.state = "resolved"
               \/ effects = <<"destroy", "reject">> /\ promise.state = "rejected"
          ELSE effects = <<>> /\ promise.state = "pending")

\* the form was resolved by a submit, and a cancel that came later found it
\* settled and changed nothing
C22_CancelAfterSubmit ==
    /\ key \in CancelKeys
    /\ settled
    /\ promise.state = "resolved"
    /\ effects = <<"destroy", "resolve">>

(***************************************************************************)
(* C23. No worktree is added over the bare repository.  No worktree add    *)
(* has bareRepoPath as its target; and a run whose worktreePath is         *)
(* bareRepoPath (the branch '.bare') and whose clone or fetch succeeded    *)
(* ends by reporting the failure 'Worktree path ... already exists.'       *)
(* without a worktree add.  (The exit status of that failure is C7's.)     *)
(***************************************************************************)
C23_BareRepositoryNotOverwritten ==
    /\ \A i \in Issued(WorktreeOps) :
          \A j \in Issued(RepoOps) : ops[i].path # ops[j].path
    /\ (PassedValidation /\ BareStepSucceeded /\ WorktreePath = BareRepoPath)
         => /\ Issued(WorktreeOps) = {}
            /\ pc \in {"worktree", "done"}
            /\ pc = "done"
                 => /\ failMsg = ExistsMessage(BareRepoPath)
                    /\ fs[BareRepoPath].kind = "bare"

\* a run for the branch .bare cloned the repository and then ended with
\* the error that the path exists, without a worktree add
C23_BareBranchRefused ==
    /\ pc = "done" /\ PassedValidation
    /\ branch.v = BARE_NAME
    /\ \E i \in Issued({"clone"}) : ops[i].res = "ok"
    /\ failMsg = ExistsMessage(BareRepoPath)
    /\ Issued(WorktreeOps) = {}

(***************************************************************************)
(* C24. focusIndex is always an index of focusables (0..4).  Tab moves it  *)
(* to the next element and Shift-Tab to the previous one, cyclically;      *)
(* Enter in the url textbox moves it to 1 and Enter in the branch textbox  *)
(* to 2; Enter in the dir textbox submits: with an empty field the focus   *)
(* goes to that field, otherwise an unsettled form resolves.               *)
(***************************************************************************)
LastIndex ==
    Len(focusables) - 1

C24_FocusCycles ==
    /\ [](focusIndex \in 0..LastIndex)
    /\ [][key' = "tab"
            => focusIndex' = IF focusIndex = LastIndex THEN 0
                             ELSE focusIndex + 1]_vars
    /\ [][key' = "S-tab"
            => focusIndex' = IF focusIndex = 0 THEN LastIndex
                             ELSE focusIndex - 1]_vars
    /\ [][key' = "enter url" => focusIndex' = 1]_vars
    /\ [][key' = "enter branch" => focusIndex' = 2]_vars
    /\ [][key' = "enter dir"
            => IF FirstEmpty < 3
               THEN focusIndex' = FirstEmpty /\ settled' = settled
               ELSE settled' /\ focusIndex' = focusIndex
                    /\ (~settled => promise'.state = "resolved")]_vars

\* Shift-Tab on the first element has moved the focus to the last one
C24_WrappedBackwards ==
    /\ key = "S-tab"
    /\ focusIndex = LastIndex
    /\ ~settled

=============================================================================
